---- MODULE Spec2Model ----
(***************************************************************************)
(* Model of edge-storage-usage.py: the size formatter (format_bytes), the  *)
(* size accumulator (get_dir_size), the home-directory resolver            *)
(* (get_home_directory), the reporter (calculate_edge_storage) and the     *)
(* entry point (main).                                                     *)
(*                                                                         *)
(* The filesystem, the directory-service process and the OS identity are   *)
(* the program's environment.  Every call the program makes into them is   *)
(* modelled by the set of outcomes the call has under CPython's pathlib    *)
(* (versions up to 3.13, which macOS ships): Path.exists(), Path.is_file() *)
(* and Path.is_dir() return True or False, and RAISE OSError when stat()   *)
(* fails with an error other than ENOENT/ENOTDIR/EBADF/ELOOP (EACCES on an *)
(* unsearchable parent, ENAMETOOLONG, EIO, ...); is_file() and stat()      *)
(* follow symbolic links.                                                  *)
(***************************************************************************)
EXTENDS Integers, Sequences, FiniteSets, TLC

VARIABLES pc, inp, res, argv, idx, stdout, status

vars == <<pc, inp, res, argv, idx, stdout, status>>

\* ------------------------------------------------------------------------
\* Byte conversion constants (module level).
KB == 1024
MB == 1048576
GB == 1073741824

\* Bounds of the model.
MaxDelta == 10
MaxWalk == 3
MaxSize == 2
MaxLines == 2
MaxArgs == 2
MaxPresent == 3

Abs(x) == IF x < 0 THEN -x ELSE x

\* ------------------------------------------------------------------------
\* format_bytes.  The result string is the record
\*   [int, frac, dec, unit]: integer part, the two fraction digits (0..99),
\*   the number of decimals printed (0 or 2) and the suffix.

\* n * 100 split into quotient and remainder by unit, for 0 <= n < unit,
\* without leaving 32-bit arithmetic (unit is KB, MB or GB).
Times100DivMod(n, unit) ==
    IF unit < GB
    THEN [q |-> (n * 100) \div unit, r |-> (n * 100) % unit]
    ELSE LET X == (n \div 32768) * 100
             Y == (n % 32768) * 100
             T == X + (Y \div 32768)
         IN [q |-> T \div 32768, r |-> (T % 32768) * 32768 + (Y % 32768)]

\* f"{bytes_size / unit:.2f}": the quotient is exact in a double, and the
\* format rounds it to two decimals, ties to the even digit.
Fixed2(bytes_size, unit) ==
    LET w == bytes_size \div unit
        d == Times100DivMod(bytes_size % unit, unit)
        up == \/ d.r > unit \div 2
              \/ d.r = unit \div 2 /\ d.q % 2 = 1
        h == w * 100 + d.q + (IF up THEN 1 ELSE 0)
    IN [int |-> h \div 100, frac |-> h % 100, dec |-> 2]

format_bytes_KBInclusive(bytes_size) ==
    IF bytes_size <= KB
    THEN [int |-> bytes_size, frac |-> 0, dec |-> 0, unit |-> "B"]
    ELSE IF bytes_size < MB
    THEN [unit |-> "KB"] @@ Fixed2(bytes_size, KB)
    ELSE IF bytes_size < GB
    THEN [unit |-> "MB"] @@ Fixed2(bytes_size, MB)
    ELSE [unit |-> "GB"] @@ Fixed2(bytes_size, GB)

format_bytes(bytes_size) ==
    IF bytes_size < KB
    THEN [int |-> bytes_size, frac |-> 0, dec |-> 0, unit |-> "B"]
    ELSE IF bytes_size < MB
    THEN [unit |-> "KB"] @@ Fixed2(bytes_size, KB)
    ELSE IF bytes_size < GB
    THEN [unit |-> "MB"] @@ Fixed2(bytes_size, MB)
    ELSE [unit |-> "GB"] @@ Fixed2(bytes_size, GB)

\* Byte counts the formatter is exercised on: both sides of every
\* threshold, small counts, exact rounding ties and the largest values.
FmtInputs ==
    (0 .. MaxDelta)
    \cup { u - d : u \in {KB, MB, GB}, d \in 1 .. MaxDelta }
    \cup { u + d : u \in {KB, MB, GB}, d \in 0 .. MaxDelta }
    \cup { 500, 1152, 1408, 1536, 2048, 1029, 1030, 5243 + MB, 5242 + MB,
           1610612736, 2147483647, 2147483647 - MaxDelta, 5368709 + GB,
           5368710 + GB }

NoRes == [kind |-> "none"]

InitFmt ==
    /\ pc = "fmt"
    /\ inp \in FmtInputs
    /\ res = NoRes
    /\ argv = <<>> /\ idx = 0 /\ stdout = <<>> /\ status = -1

FormatStep ==
    /\ pc = "fmt"
    /\ res' = format_bytes(inp)
    /\ pc' = "fmt_done"
    /\ UNCHANGED <<inp, argv, idx, stdout, status>>

NextFmt == FormatStep

SpecFmt == InitFmt /\ [][NextFmt]_vars

UnitOf(s) == IF s = "KB" THEN KB ELSE IF s = "MB" THEN MB ELSE GB

\* The printed number, in hundredths, is within half a hundredth of b/unit.
NearQuotient(b, o) ==
    LET unit == UnitOf(o.unit)
        k == (o.int * 100 + o.frac) - 100 * (b \div unit)
        rem == b % unit
        A == (rem \div 1024) * 100 - k * (unit \div 1024)
    IN /\ k \in 0 .. 100
       /\ A > -600000 /\ A < 600000
       /\ Abs(A * 1024 + (rem % 1024) * 100) <= unit \div 2

\* C10: the unit is chosen by half-open binary brackets (B below 1024 with
\* no decimals, KB below 1024^2, MB below 1024^3, GB from there on), the
\* value above 1024 is b divided by the unit with exactly two decimals, and
\* the boundary values print as 1023B, 1.00KB, 1024.00KB, 1.00MB, 1.00GB.
C10_Brackets ==
    pc = "fmt_done" =>
        /\ (res.unit = "B") <=> (inp < 1024)
        /\ (res.unit = "KB") <=> (1024 <= inp /\ inp < 1024 * 1024)
        /\ (res.unit = "MB") <=> (1024 * 1024 <= inp /\ inp < 1024 * 1024 * 1024)
        /\ (res.unit = "GB") <=> (inp >= 1024 * 1024 * 1024)
        /\ res.unit = "B" => res.dec = 0 /\ res.int = inp
        /\ res.unit # "B" => res.dec = 2 /\ res.frac \in 0 .. 99 /\ NearQuotient(inp, res)
        /\ inp = 1023 => res = [int |-> 1023, frac |-> 0, dec |-> 0, unit |-> "B"]
        /\ inp = 1024 => res = [int |-> 1, frac |-> 0, dec |-> 2, unit |-> "KB"]
        /\ inp = 1048575 => res = [int |-> 1024, frac |-> 0, dec |-> 2, unit |-> "KB"]
        /\ inp = 1048576 => res = [int |-> 1, frac |-> 0, dec |-> 2, unit |-> "MB"]
        /\ inp = 1073741824 => res = [int |-> 1, frac |-> 0, dec |-> 2, unit |-> "GB"]

C10_Witness ==
    /\ pc = "fmt_done"
    /\ inp = 1048575
    /\ res.unit = "KB" /\ res.int = 1024 /\ res.frac = 0

\* ------------------------------------------------------------------------
\* get_dir_size.
\*
\* The argument is what the filesystem answers at each step of one call:
\*   ex    outcome of path.exists():  "T", "F" or "E" (OSError raised)
\*   isf   outcome of path.is_file(): "T", "F" or "E"
\*   st    outcome of path.stat().st_size: a size, or StatErr (OSError)
\*   walk  the entries path.rglob('*') yields, in order
\*   fail  the number of entries yielded before the enumeration itself
\*         raises OSError, or NoFail when it runs to the end.
\* The answers of two steps are independent of each other: the path may be
\* removed or replaced between them.
\*
\* An entry of the walk is [kind, size, acc]:
\*   kind  "reg" plain regular file, "lnkfile" symbolic link to a regular
\*         file (size is the target's size), "lnkbroken", "lnkdir", "dir",
\*         "special"
\*   acc   "ok"; "denied": stat() of the entry fails (EACCES), so is_file()
\*         raises; "vanish": the entry is there for is_file() and gone (or
\*         unreadable) for the stat() that follows.
StatErr == -1
NoFail == -1

Sizes == 0 .. MaxSize

Items ==
    [kind : {"reg"}, size : Sizes, acc : {"ok", "vanish"}]
    \cup [kind : {"reg"}, size : {MaxSize}, acc : {"denied"}]
    \cup [kind : {"lnkfile"}, size : {MaxSize}, acc : {"ok"}]
    \cup [kind : {"lnkbroken", "lnkdir", "dir", "special"}, size : {0}, acc : {"ok"}]

\* Path.is_file(): S_ISREG of stat(), which follows symbolic links; False
\* for a missing target; raises for other stat errors.
is_file(item) ==
    IF item.acc = "denied" THEN "E"
    ELSE IF item.kind \in {"reg", "lnkfile"} THEN "T" ELSE "F"

\* Path.stat().st_size, following symbolic links.
stat_size(item) == IF item.acc = "ok" THEN item.size ELSE StatErr

\* The loop of lines 63-71 from entry i on, total_size being total.
RECURSIVE WalkFrom(_, _, _)
WalkFrom(path, i, total) ==
    IF path.fail = i - 1 THEN total               \* rglob raises: except, pass
    ELSE IF i > Len(path.walk) THEN total         \* enumeration exhausted
    ELSE LET item == path.walk[i] IN
         IF is_file(item) = "E" THEN total        \* caught by the outer except
         ELSE IF is_file(item) = "T" /\ stat_size(item) # StatErr
         THEN WalkFrom(path, i + 1, total + stat_size(item))
         ELSE WalkFrom(path, i + 1, total)        \* not a file, or continue

RECURSIVE WalkFromReset(_, _, _)
WalkFromReset(path, i, total) ==
    IF path.fail = i - 1 THEN 0
    ELSE IF i > Len(path.walk) THEN total
    ELSE LET item == path.walk[i] IN
         IF is_file(item) = "E" THEN 0
         ELSE IF is_file(item) = "T" /\ stat_size(item) # StatErr
         THEN WalkFromReset(path, i + 1, total + stat_size(item))
         ELSE WalkFromReset(path, i + 1, total)

Ret(v) == [kind |-> "ret", val |-> v]
Raise == [kind |-> "raise", val |-> 0]

get_dir_size_ResetOnWalkError(path) ==
    IF path.ex = "E" THEN Raise
    ELSE IF path.ex = "F" THEN Ret(0)
    ELSE IF path.isf = "E" THEN Raise
    ELSE IF path.isf = "T"
    THEN (IF path.st = StatErr THEN Ret(0) ELSE Ret(path.st))
    ELSE Ret(WalkFromReset(path, 1, 0))

get_dir_size(path) ==
    IF path.ex = "E" THEN Raise                   \* line 52, outside any try
    ELSE IF path.ex = "F" THEN Ret(0)
    ELSE IF path.isf = "E" THEN Raise             \* line 55, outside any try
    ELSE IF path.isf = "T"
    THEN (IF path.st = StatErr THEN Ret(0) ELSE Ret(path.st))
    ELSE Ret(WalkFrom(path, 1, 0))

Walks == UNION { [1 .. n -> Items] : n \in 0 .. MaxWalk }

PathObs(ex, isf, st, walk, fail) ==
    [ex |-> ex, isf |-> isf, st |-> st, walk |-> walk, fail |-> fail]

\* What one call of get_dir_size can meet.
SizeInputs ==
    { PathObs(ex, "F", StatErr, <<>>, NoFail) : ex \in {"F", "E"} }
    \cup { PathObs("T", "E", StatErr, <<>>, NoFail) }
    \cup { PathObs("T", "T", st, <<>>, NoFail) : st \in Sizes \cup {StatErr} }
    \cup { PathObs("T", "F", StatErr, w[1], w[2]) :
             w \in { x \in Walks \X (NoFail .. MaxWalk) : x[2] <= Len(x[1]) } }

InitSize ==
    /\ pc = "size"
    /\ inp \in SizeInputs
    /\ res = NoRes
    /\ argv = <<>> /\ idx = 0 /\ stdout = <<>> /\ status = -1

SizeStep ==
    /\ pc = "size"
    /\ res' = get_dir_size(inp)
    /\ pc' = "size_done"
    /\ UNCHANGED <<inp, argv, idx, stdout, status>>

NextSize == SizeStep

SpecSize == InitSize /\ [][NextSize]_vars

RECURSIVE SumSizes(_)
SumSizes(s) == IF s = <<>> THEN 0 ELSE Head(s).size + SumSizes(Tail(s))

IsPlainReadable(item) == item.kind = "reg" /\ item.acc = "ok"
FollowsToReadable(item) == item.kind \in {"reg", "lnkfile"} /\ item.acc = "ok"

IsDirWalk == inp.ex = "T" /\ inp.isf = "F"

\* C4: get_dir_size never raises and returns an integer >= 0 whatever the
\* filesystem answers at any of its steps, and 0 for a nonexistent path.
C4_NeverRaises ==
    pc = "size_done" =>
        /\ res.kind = "ret"
        /\ res.val >= 0
        /\ inp.ex = "F" => res.val = 0

\* Holds of the code: whenever get_dir_size does return, the value is >= 0,
\* and it is 0 when the existence check answers False.
Size_NonNegativeOnReturn ==
    pc = "size_done" /\ res.kind = "ret" =>
        res.val >= 0 /\ (inp.ex = "F" => res.val = 0)

\* C5: for a directory whose walk completes and whose entries can all be
\* tested, the result is the sum of the sizes of exactly the plain regular
\* files; symbolic links (also to regular files), special files and
\* directories add nothing, an unreadable size adds 0.
C5_OnlyPlainFiles ==
    pc = "size_done" /\ IsDirWalk /\ inp.fail = NoFail
       /\ (\A i \in 1 .. Len(inp.walk) : inp.walk[i].acc # "denied") =>
        /\ res.kind = "ret"
        /\ res.val = SumSizes(SelectSeq(inp.walk, IsPlainReadable))

\* Holds of the code: the same walk sums every entry is_file() accepts,
\* which includes the targets of symbolic links to regular files.
Size_SumsFollowedFiles ==
    pc = "size_done" /\ IsDirWalk /\ inp.fail = NoFail
       /\ (\A i \in 1 .. Len(inp.walk) : inp.walk[i].acc # "denied") =>
        /\ res.kind = "ret"
        /\ res.val = SumSizes(SelectSeq(inp.walk, FollowsToReadable))

\* C6 as stated: when the enumeration raises, the value returned is 0.
C6_WalkFailureGivesZero ==
    pc = "size_done" /\ IsDirWalk /\ inp.fail # NoFail =>
        res.kind = "ret" /\ res.val = 0

\* The entries summed before the walk stops: those before the enumeration
\* error and before the first entry whose file test raises.
Stop(path) ==
    LET denied == { i \in 1 .. Len(path.walk) : path.walk[i].acc = "denied" }
        cut == { i - 1 : i \in denied } \cup {path.fail}
    IN CHOOSE n \in cut : \A m \in cut : n <= m

\* C6 as amended: when the enumeration raises, get_dir_size returns, without
\* an error, the sum of the files counted before the failure; that is 0 when
\* the failure comes before the first entry.
C6_WalkFailureGivesPartialSum ==
    pc = "size_done" /\ IsDirWalk /\ inp.fail # NoFail =>
        /\ res.kind = "ret"
        /\ res.val = SumSizes(SelectSeq(SubSeq(inp.walk, 1, Stop(inp)), FollowsToReadable))
        /\ inp.fail = 0 => res.val = 0

C6_Witness ==
    /\ pc = "size_done" /\ IsDirWalk
    /\ inp.fail = 1 /\ Len(inp.walk) >= 2
    /\ inp.walk[1].kind = "reg" /\ inp.walk[1].acc = "ok" /\ inp.walk[1].size > 0
    /\ res.kind = "ret" /\ res.val = inp.walk[1].size

\* ------------------------------------------------------------------------
\* get_home_directory.
\*
\* Paths are sequences of strings: <<"home", u>> is Path.home() of the
\* current user u, <<"Users", u>> is /Users/u, <<"nfs">> \o p is the path
\* whose text is p, and None is Python's None.
\*
\* The environment of one call is [cur, users, dscl]:
\*   cur    what getpass.getuser() returns
\*   users  [ex, isd]: the outcomes ("T", "F", "E" = OSError raised) of
\*          exists() and is_dir() on /Users/{username}
\*   dscl   [spawn, rc, out]: spawn = "error" when subprocess.run raises
\*          (no such binary), else the exit status and the lines of stdout.
\* A line of stdout is a sequence of tokens: "K" is the text
\* 'NFSHomeDirectory:', "_" is one whitespace character, anything else is
\* text without whitespace.  The filesystem the directory-service paths
\* are probed on is fixed: /d is a directory, /f a regular file, stat of
\* /x fails with EACCES, the empty path is Path('') = '.', a directory,
\* and no other path exists.
None == <<"None">>
Users == {"alice", "bob"}

DsclLines ==
    { <<"t">>,
      <<"K", "_", "/d">>,
      <<"K", "/d", "_">>,
      <<"t", "_", "K", "_", "_", "/d">>,
      <<"K", "_", "/n">>,
      <<"K", "_", "/f">>,
      <<"K", "_", "/x">>,
      <<"K">>,
      <<"K", "_", "/d", "_", "K", "_", "/n">>,
      <<"K", "_", "/n", "_", "/d">> }

\* exists() and is_dir() of Path(path_str) on the fixed filesystem.
NfsProbe(path_str) ==
    IF path_str = <<>> \/ path_str = <<"/d">> THEN [ex |-> "T", isd |-> "T"]
    ELSE IF path_str = <<"/f">> THEN [ex |-> "T", isd |-> "F"]
    ELSE IF path_str = <<"/x">> THEN [ex |-> "E", isd |-> "E"]
    ELSE [ex |-> "F", isd |-> "F"]

\* NFS_HOME_DIR_KEY in line
HasKey(line) == \E i \in 1 .. Len(line) : line[i] = "K"

\* line.split(NFS_HOME_DIR_KEY, 1)[1]: the text after the first occurrence.
AfterKey(line) ==
    LET i == CHOOSE k \in 1 .. Len(line) :
                 line[k] = "K" /\ \A j \in 1 .. k - 1 : line[j] # "K"
    IN SubSeq(line, i + 1, Len(line))

\* str.strip()
RECURSIVE LStrip(_)
LStrip(t) == IF t # <<>> /\ Head(t) = "_" THEN LStrip(Tail(t)) ELSE t

RECURSIVE RStrip(_)
RStrip(t) ==
    IF t # <<>> /\ t[Len(t)] = "_" THEN RStrip(SubSeq(t, 1, Len(t) - 1)) ELSE t

strip(t) == RStrip(LStrip(t))

Home(v, calls) == [kind |-> "ret", val |-> v, calls |-> calls]
HomeRaise(calls) == [kind |-> "raise", val |-> None, calls |-> calls]

\* The loop of lines 99-104 from line i on; an exception raised by a probe
\* is caught by "except Exception" and ends the function with None.
RECURSIVE ScanLines(_, _, _)
ScanLines(out, i, calls) ==
    IF i > Len(out) THEN Home(None, calls)
    ELSE IF ~ HasKey(out[i]) THEN ScanLines(out, i + 1, calls)
    ELSE LET path_str == strip(AfterKey(out[i]))
             probe == NfsProbe(path_str)
             seen == Append(calls, "nfs.exists")
         IN IF probe.ex = "E" THEN Home(None, seen)
            ELSE IF probe.ex = "T" /\ probe.isd = "E" THEN Home(None, seen)
            ELSE IF probe.ex = "T" /\ probe.isd = "T"
            THEN Home(<<"nfs">> \o path_str, seen)
            ELSE ScanLines(out, i + 1, seen)

\* Lines 91-108.
QueryDscl(env, calls) ==
    LET run == Append(calls, "dscl") IN
    IF env.dscl.spawn = "error" THEN Home(None, run)
    ELSE IF env.dscl.rc # 0 THEN Home(None, run)
    ELSE ScanLines(env.dscl.out, 1, run)

get_home_directory_ProbeFirst(username, env) ==
    LET calls == <<"getuser", "users.exists">> IN
    IF env.users.ex = "E" THEN HomeRaise(calls)
    ELSE IF username = env.cur THEN Home(<<"home", env.cur>>, Append(calls, "Path.home"))
    ELSE IF env.users.ex = "T" /\ env.users.isd = "T" THEN Home(<<"Users", username>>, calls)
    ELSE QueryDscl(env, calls)

get_home_directory(username, env) ==
    IF username = env.cur
    THEN Home(<<"home", env.cur>>, <<"getuser", "Path.home">>)
    ELSE LET calls == <<"getuser", "users.exists">> IN
         IF env.users.ex = "E" THEN HomeRaise(calls)            \* line 87
         ELSE IF env.users.ex = "F" THEN QueryDscl(env, calls)
         ELSE LET tested == Append(calls, "users.is_dir") IN
              IF env.users.isd = "E" THEN HomeRaise(tested)     \* line 87
              ELSE IF env.users.isd = "T" THEN Home(<<"Users", username>>, tested)
              ELSE QueryDscl(env, tested)

UsersProbes ==
    { [ex |-> "F", isd |-> "F"], [ex |-> "E", isd |-> "E"] }
    \cup [ex : {"T"}, isd : {"T", "F", "E"}]

DsclOuts == UNION { [1 .. n -> DsclLines] : n \in 0 .. MaxLines }

DsclRuns ==
    { [spawn |-> "error", rc |-> 0, out |-> <<>>] }
    \cup [spawn : {"ok"}, rc : {0, 1}, out : DsclOuts]

HomeEnvs == [cur : Users, users : UsersProbes, dscl : DsclRuns]

InitHome ==
    /\ pc = "home"
    /\ inp \in [username : Users, env : HomeEnvs]
    /\ res = NoRes
    /\ argv = <<>> /\ idx = 0 /\ stdout = <<>> /\ status = -1

HomeStep ==
    /\ pc = "home"
    /\ res' = get_home_directory(inp.username, inp.env)
    /\ pc' = "home_done"
    /\ UNCHANGED <<inp, argv, idx, stdout, status>>

NextHome == HomeStep

SpecHome == InitHome /\ [][NextHome]_vars

Called(name) == \E i \in 1 .. Len(res.calls) : res.calls[i] = name

\* C2: for the current OS user the resolver returns that user's home
\* directory, never NotFound, and neither probes /Users/{username} nor runs
\* the directory-service process, whatever the filesystem answers.
C2_CurrentUserDirect ==
    pc = "home_done" /\ inp.username = inp.env.cur =>
        /\ res.kind = "ret"
        /\ res.val = <<"home", inp.username>>
        /\ ~ Called("users.exists") /\ ~ Called("users.is_dir")
        /\ ~ Called("dscl") /\ ~ Called("nfs.exists")

C2_Witness ==
    /\ pc = "home_done" /\ inp.username = inp.env.cur
    /\ inp.env.users.ex = "E" /\ inp.env.dscl.spawn = "error"
    /\ res.kind = "ret" /\ res.val = <<"home", inp.username>>

\* The trimmed value of a key line, stated by its shape: the text after the
\* first key is whitespace, then p, then whitespace, p not beginning or
\* ending with whitespace.
IsTrimOf(p, line) ==
    \E k \in 1 .. Len(line) :
        /\ line[k] = "K" /\ \A j \in 1 .. k - 1 : line[j] # "K"
        /\ \E a \in k .. Len(line) : \E b \in a .. Len(line) :
              /\ \A j \in k + 1 .. a : line[j] = "_"
              /\ \A j \in b + 1 .. Len(line) : line[j] = "_"
              /\ p = SubSeq(line, a + 1, b)
              /\ p # <<>> => p[1] # "_" /\ p[Len(p)] # "_"

NfsPaths == { <<>>, <<"/d">>, <<"/f">>, <<"/x">>, <<"/n">>, <<"/n", "_", "/d">>,
              <<"/d", "_", "K", "_", "/n">> }

LineState(line) ==
    IF ~ HasKey(line) THEN "nokey"
    ELSE LET p == CHOOSE q \in NfsPaths : IsTrimOf(q, line) IN
         IF NfsProbe(p).ex = "E" THEN "error"
         ELSE IF NfsProbe(p).ex = "T" /\ NfsProbe(p).isd = "T" THEN "dir"
         ELSE "miss"

\* What C3 says the resolver returns for a user other than the current one.
ExpectedHome(username, env) ==
    IF env.users.ex = "T" /\ env.users.isd = "T" THEN <<"Users", username>>
    ELSE IF /\ env.dscl.spawn = "ok" /\ env.dscl.rc = 0
            /\ \E i \in 1 .. Len(env.dscl.out) :
                  /\ LineState(env.dscl.out[i]) = "dir"
                  /\ \A j \in 1 .. i - 1 : LineState(env.dscl.out[j]) \in {"nokey", "miss"}
    THEN LET i == CHOOSE k \in 1 .. Len(env.dscl.out) :
                      /\ LineState(env.dscl.out[k]) = "dir"
                      /\ \A j \in 1 .. k - 1 : LineState(env.dscl.out[j]) # "dir"
         IN <<"nfs">> \o (CHOOSE q \in NfsPaths : IsTrimOf(q, env.dscl.out[i]))
    ELSE None

\* C3: for a user other than the current one the resolver returns
\* /Users/{username} when that is an existing directory, without running
\* the query; else the NFSHomeDirectory path of a successful query when it
\* is an existing directory; else NotFound.  It always returns one of them.
C3_FirstSuccessWins ==
    pc = "home_done" /\ inp.username # inp.env.cur =>
        /\ res.kind = "ret"
        /\ res.val = ExpectedHome(inp.username, inp.env)
        /\ res.val = <<"Users", inp.username>> => ~ Called("dscl")

\* Holds of the code: the same, provided the two probes of
\* /Users/{username} answer without raising; no outcome of the query or of
\* the probes made on its answer reaches the caller as an exception.
Home_FirstSuccessWinsUnlessProbeRaises ==
    pc = "home_done" /\ inp.username # inp.env.cur =>
        /\ (res.kind = "raise") <=>
              (inp.env.users.ex = "E" \/ (inp.env.users.ex = "T" /\ inp.env.users.isd = "E"))
        /\ res.kind = "ret" =>
              /\ res.val = ExpectedHome(inp.username, inp.env)
              /\ res.val = <<"Users", inp.username>> => ~ Called("dscl")

\* ------------------------------------------------------------------------
\* calculate_edge_storage.
\*
\* A printed line is [t, u, label, text]: t is the kind of line, u the
\* username it names, label the category label, text the formatted size.
NoText == [int |-> 0, frac |-> 0, dec |-> 0, unit |-> ""]
Line(t, u, label, text) == [t |-> t, u |-> u, label |-> label, text |-> text]

\* The labels of edge_dirs, in insertion order (lines 124-132).
edge_dirs ==
    << "Application Support", "Caches", "Cookies", "HTTPStorages",
       "Preferences", "Saved Application State", "WebKit" >>

NumDirs == Len(edge_dirs)

\* The filesystem under one category path: ex is the outcome of the
\* path.exists() of line 139, obs what get_dir_size meets after it.
CatObs(ex, obs) == [ex |-> ex, obs |-> obs]

Absent == CatObs("F", PathObs("F", "F", StatErr, <<>>, NoFail))
Unreachable == CatObs("E", PathObs("E", "F", StatErr, <<>>, NoFail))
File500 == CatObs("T", PathObs("T", "T", 500, <<>>, NoFail))
EmptyDir == CatObs("T", PathObs("T", "F", StatErr, <<>>, NoFail))
DirKB ==
    CatObs("T", PathObs("T", "F", StatErr,
                        << [kind |-> "reg", size |-> 1024, acc |-> "ok"],
                           [kind |-> "dir", size |-> 0, acc |-> "ok"],
                           [kind |-> "reg", size |-> 512, acc |-> "ok"] >>, NoFail))

\* Present for line 139, stat fails (EACCES) when get_dir_size looks again.
Raced == CatObs("T", PathObs("E", "F", StatErr, <<>>, NoFail))

Present == {File500, EmptyDir, DirKB, Unreachable, Raced}

\* The loop of lines 138-145 from table entry i on.  The result is
\* [raised, total, found, out].
RECURSIVE Categories(_, _, _, _, _)
Categories(cats, i, total, found, out) ==
    IF i > NumDirs
    THEN [raised |-> FALSE, total |-> total, found |-> found, out |-> out]
    ELSE IF cats[i].ex = "E"                          \* line 139 raises
    THEN [raised |-> TRUE, total |-> total, found |-> found, out |-> out]
    ELSE IF cats[i].ex = "F"
    THEN Categories(cats, i + 1, total, found, out)
    ELSE LET size == get_dir_size(cats[i].obs) IN
         IF size.kind = "raise"
         THEN [raised |-> TRUE, total |-> total, found |-> TRUE, out |-> out]
         ELSE IF size.val > 0
         THEN Categories(cats, i + 1, total + size.val, TRUE,
                         Append(out, Line("cat", "", edge_dirs[i], format_bytes(size.val))))
         ELSE Categories(cats, i + 1, total, TRUE, out)

Report(kind, val, out) == [kind |-> kind, val |-> val, out |-> out]

Header(username) ==
    << Line("rule", "", "", NoText), Line("user", username, "", NoText),
       Line("rule", "", "", NoText) >>

calculate_edge_storage(username, env) ==
    LET home_dir == get_home_directory(username, env.home) IN
    IF home_dir.kind = "raise" THEN Report("raise", FALSE, <<>>)
    ELSE IF home_dir.val = None
    THEN Report("ret", FALSE, << Line("notfound", username, "", NoText) >>)
    ELSE LET loop == Categories(env.cats, 1, 0, FALSE, Header(username)) IN
         IF loop.raised THEN Report("raise", FALSE, loop.out)
         ELSE IF ~ loop.found
         THEN Report("ret", TRUE, Append(loop.out, Line("nodata", username, "", NoText)))
         ELSE Report("ret", TRUE,
                     loop.out \o << Line("sep", "", "", NoText),
                                    Line("total", "", "TOTAL", format_bytes(loop.total)),
                                    Line("rule", "", "", NoText) >>)

\* Category tables with at most k entries that are not plainly absent.
CatsWith(k) ==
    UNION { { [i \in 1 .. NumDirs |-> IF i \in S THEN f[i] ELSE Absent] :
                f \in [S -> Present] } :
            S \in { T \in SUBSET (1 .. NumDirs) : Cardinality(T) <= k } }

\* The ways the resolver's environment can answer, for the current user cur.
ResolverCases(cur) ==
    { [cur |-> cur, users |-> [ex |-> "T", isd |-> "T"],
       dscl |-> [spawn |-> "error", rc |-> 0, out |-> <<>>]],
      [cur |-> cur, users |-> [ex |-> "F", isd |-> "F"],
       dscl |-> [spawn |-> "ok", rc |-> 0, out |-> << <<"K", "_", "/d">> >>]],
      [cur |-> cur, users |-> [ex |-> "F", isd |-> "F"],
       dscl |-> [spawn |-> "ok", rc |-> 1, out |-> <<>>]],
      [cur |-> cur, users |-> [ex |-> "E", isd |-> "E"],
       dscl |-> [spawn |-> "error", rc |-> 0, out |-> <<>>]] }

ReportEnvs(cur, k) == [home : ResolverCases(cur), cats : CatsWith(k)]

InitReport ==
    /\ pc = "report"
    /\ \E cur \in Users :
          inp \in [username : Users, env : ReportEnvs(cur, MaxPresent)]
    /\ res = NoRes
    /\ argv = <<>> /\ idx = 0 /\ stdout = <<>> /\ status = -1

ReportStep ==
    /\ pc = "report"
    /\ res' = calculate_edge_storage(inp.username, inp.env)
    /\ stdout' = res'.out
    /\ pc' = "report_done"
    /\ UNCHANGED <<inp, argv, idx, status>>

NextReport == ReportStep

SpecReport == InitReport /\ [][NextReport]_vars

\* What the resolver answers in the state's environment.
Resolved == get_home_directory(inp.username, inp.env.home)
HomeFound == Resolved.kind = "ret" /\ Resolved.val # None
HomeNotFound == Resolved.kind = "ret" /\ Resolved.val = None

Exists(i) == inp.env.cats[i].ex = "T"
SizeOf(i) ==
    LET r == get_dir_size(inp.env.cats[i].obs)
    IN IF r.kind = "ret" THEN r.val ELSE 0

Printed(t) == \E k \in 1 .. Len(stdout) : stdout[k].t = t
CountOf(t) == Cardinality({ k \in 1 .. Len(stdout) : stdout[k].t = t })
IsCatLine(l) == l.t = "cat"

\* The table entries that exist with a positive size, and the k-th of them.
Positive == { i \in 1 .. NumDirs : Exists(i) /\ SizeOf(i) > 0 }
Nth(k) == CHOOSE i \in Positive : Cardinality({ j \in Positive : j < i }) = k - 1

RECURSIVE SumOver(_)
SumOver(S) ==
    IF S = {} THEN 0
    ELSE LET i == CHOOSE x \in S : TRUE IN SizeOf(i) + SumOver(S \ {i})

CategoryLinesAsTable ==
    LET lines == SelectSeq(stdout, IsCatLine) IN
    /\ Len(lines) = Cardinality(Positive)
    /\ \A k \in 1 .. Len(lines) :
          /\ lines[k].label = edge_dirs[Nth(k)]
          /\ lines[k].text = format_bytes(SizeOf(Nth(k)))
    /\ \A k \in 1 .. Len(stdout) :
          stdout[k].t = "total" => stdout[k].text = format_bytes(SumOver(Positive))

OneOfNoticeAndTotal ==
    /\ CountOf("nodata") + CountOf("total") = 1
    /\ Printed("nodata") <=> (\A i \in 1 .. NumDirs : ~ Exists(i))
    /\ Printed("total") <=> (\E i \in 1 .. NumDirs : Exists(i))
    /\ Printed("total") <=> Printed("sep")

\* C1: calculate_edge_storage returns false exactly when the resolver
\* returns NotFound, printing then only the error line naming the user; in
\* every other case it returns true.
C1_FalseIffNotFound ==
    pc = "report_done" =>
        /\ res.kind = "ret"
        /\ (res.val = FALSE) <=> HomeNotFound
        /\ HomeNotFound => stdout = << Line("notfound", inp.username, "", NoText) >>

\* C7: for a resolved home directory, one category line is printed for
\* exactly the table entries that exist with a size > 0, in table order,
\* and the total shown is the sum of the sizes on those lines.
C7_LinesAndTotal ==
    pc = "report_done" /\ HomeFound => CategoryLinesAsTable

\* C8: for a resolved home directory exactly one of the 'no data' notice
\* and the total line is printed: the notice iff no category path exists,
\* the separator and total iff one does (also when all sizes are 0), and
\* the result is true.
C8_NoticeXorTotal ==
    pc = "report_done" /\ HomeFound =>
        /\ res.kind = "ret" /\ res.val = TRUE
        /\ OneOfNoticeAndTotal

\* The category probes up to the first that raises.
FirstRaise ==
    { i \in 1 .. NumDirs :
         /\ \/ inp.env.cats[i].ex = "E"
            \/ Exists(i) /\ get_dir_size(inp.env.cats[i].obs).kind = "raise"
         /\ \A j \in 1 .. i - 1 :
               /\ inp.env.cats[j].ex # "E"
               /\ Exists(j) => get_dir_size(inp.env.cats[j].obs).kind = "ret" }

\* Holds of the code: the reporter raises exactly when the resolver raises
\* or, the home being resolved, a category probe or get_dir_size raises;
\* whenever it returns, C1, C7 and C8 hold of what it printed and returned.
Report_HoldsOnReturn ==
    pc = "report_done" =>
        /\ (res.kind = "raise") <=>
              (Resolved.kind = "raise" \/ (HomeFound /\ FirstRaise # {}))
        /\ res.kind = "ret" =>
              /\ (res.val = FALSE) <=> HomeNotFound
              /\ HomeNotFound => stdout = << Line("notfound", inp.username, "", NoText) >>
              /\ HomeFound => CategoryLinesAsTable /\ OneOfNoticeAndTotal

\* ------------------------------------------------------------------------
\* main.  inp is [platform, cur, args]: platform.system(), the invoking
\* user, and sys.argv[1:].  argv is the list "usernames", idx the position
\* of the loop of line 176, status the exit status (-1 while running), and
\* res the history of the reporter calls made, as [u, r]: the username
\* passed and what the call returned.
Platforms == {"Darwin", "Linux"}

ArgLists == UNION { [1 .. n -> Users] : n \in 0 .. MaxArgs }

Banner ==
    << Line("banner", "", "", NoText), Line("banner", "", "", NoText),
       Line("banner", "", "", NoText) >>

Init ==
    /\ pc = "main"
    /\ inp \in [platform : Platforms, cur : Users, args : ArgLists]
    /\ res = <<>>
    /\ argv = <<>> /\ idx = 0 /\ stdout = <<>> /\ status = -1

\* Lines 161-173.
MainStart ==
    /\ pc = "main"
    /\ IF inp.platform # "Darwin"
       THEN /\ stdout' = << Line("unsupported", "", "", NoText) >>
            /\ status' = 1
            /\ pc' = "exited"
            /\ UNCHANGED <<argv, idx>>
       ELSE /\ stdout' = Banner
            /\ argv' = (IF Len(inp.args) = 0 THEN << inp.cur >> ELSE inp.args)
            /\ idx' = 1
            /\ pc' = "loop"
            /\ UNCHANGED status
    /\ UNCHANGED <<inp, res>>

\* One iteration of the loop of lines 176-177.  An exception leaving
\* calculate_edge_storage is not caught anywhere: the interpreter prints a
\* traceback and exits with status 1.
MainUser ==
    /\ pc = "loop" /\ idx <= Len(argv)
    /\ \E env \in ReportEnvs(inp.cur, 1) :
          LET r == calculate_edge_storage(argv[idx], env) IN
          /\ stdout' = stdout \o r.out
          /\ res' = Append(res, [u |-> argv[idx], r |-> r])
          /\ IF r.kind = "raise"
             THEN /\ status' = 1 /\ pc' = "exited" /\ UNCHANGED idx
             ELSE /\ idx' = idx + 1 /\ UNCHANGED <<pc, status>>
    /\ UNCHANGED <<inp, argv>>

\* Line 179 and the normal end of the process.
MainEnd ==
    /\ pc = "loop" /\ idx > Len(argv)
    /\ stdout' = Append(stdout, Line("blank", "", "", NoText))
    /\ status' = 0
    /\ pc' = "exited"
    /\ UNCHANGED <<inp, res, argv, idx>>

Next == MainStart \/ MainUser \/ MainEnd

Spec == Init /\ [][Next]_vars

RECURSIVE Outputs(_)
Outputs(calls) == IF calls = <<>> THEN <<>> ELSE Head(calls).r.out \o Outputs(Tail(calls))

Requested == IF inp.args = <<>> THEN << inp.cur >> ELSE inp.args

RanOncePerUserInOrder ==
    /\ Len(res) = Len(Requested)
    /\ \A i \in 1 .. Len(res) : res[i].u = Requested[i]
    /\ stdout = Banner \o Outputs(res) \o << Line("blank", "", "", NoText) >>
    /\ \A i \in 1 .. Len(res) :
          res[i].r.val = FALSE =>
              res[i].r.out = << Line("notfound", res[i].u, "", NoText) >>

\* C9: on the supported platform main runs the reporter once per username
\* argument, in order (once for the invoking user without arguments), each
\* user's output complete before the next one's; a user that is not found
\* prints only its not-found line and does not stop the later ones, and
\* the process ends with exit status zero.
C9_EveryUserThenExitZero ==
    pc = "exited" /\ inp.platform = "Darwin" =>
        /\ status = 0
        /\ RanOncePerUserInOrder

\* Holds of the code: the process ends with status 0 exactly when no
\* reporter call raised, and then C9 holds; when a call raises, it is the
\* last call made and the status is 1.
Main_HoldsUnlessReporterRaises ==
    pc = "exited" /\ inp.platform = "Darwin" =>
        /\ (status = 0) <=> (\A i \in 1 .. Len(res) : res[i].r.kind = "ret")
        /\ status = 0 => RanOncePerUserInOrder
        /\ status # 0 =>
              /\ status = 1
              /\ res[Len(res)].r.kind = "raise"
              /\ \A i \in 1 .. Len(res) - 1 : res[i].r.kind = "ret"
              /\ \A i \in 1 .. Len(res) : res[i].u = Requested[i]

\* Holds of the code: on any other platform nothing is processed and the
\* exit status is 1.
Main_PlatformGuard ==
    pc = "exited" /\ inp.platform # "Darwin" =>
        status = 1 /\ res = <<>> /\ Len(stdout) = 1

====
